---- MODULE Spec2Model ----
(***************************************************************************)
(* Model of compiler.py: the head-tracking emitter, the cell allocator,    *)
(* the Byte value operations, the table of built-in intrinsics, the AST    *)
(* evaluator, and the tape machine that runs the emitted program.          *)
(*                                                                         *)
(* The compiler object is the record Self; every method is an operator     *)
(* from a compiler record to the compiler record after the call.  A raised *)
(* exception is the field fault: once it is set every later call leaves    *)
(* the record alone, which is how an uncaught exception unwinds.           *)
(***************************************************************************)
EXTENDS Integers, Sequences, FiniteSets, TLC

VARIABLES
    program,        \* Compiler.program, as one sequence of characters
    current_index,  \* Compiler.current_index, the predicted head
    non_allocated,  \* Compiler.non_allocated
    gaps,           \* Compiler.gaps
    variables,      \* Compiler.variables, name -> Value
    fault,          \* the exception that aborted compilation, or "none"
    saves,          \* the local `save` of every open loop() scope, innermost last
    result,         \* the index returned by the last allocate()
    value,          \* the Value returned by the last expression
    live,           \* history: indices handed out by allocate() and not freed since
    double_free,    \* history: free_cell was called on an index that was not live
    ngoto,          \* history: number of goto() calls so far
    marks,          \* history: the allocate() and free_cell() calls, each with its
                    \* cell and the place of the emitted program where it was made
    op,             \* the operation performed by the last step
    nops,           \* number of steps taken
    frames,         \* open If / While statements, innermost last
    done,           \* compile() has returned the program
    script,         \* the statements of main still to be compiled
    test,           \* the source program being compiled and its parameters
    input,          \* bytes of stdin not yet read
    output,         \* bytes written to stdout
    tape,           \* the tape of the target machine
    dp,             \* the head of the target machine
    ip,             \* index of the next character of the program to run
    phase           \* "compile", "run" or "halted"

cvars == <<program, current_index, non_allocated, gaps, variables, fault,
           saves, result, value, live, double_free, ngoto, marks>>
dvars == <<op, nops, frames, done, script, test>>
rvars == <<input, output, tape, dp, ip, phase>>
vars == <<cvars, dvars, rvars>>

----------------------------------------------------------------------------
(* Bounds *)

MaxCells == 3       \* allocate() is not called once non_allocated exceeds this
MaxGaps == 3        \* free_cell() is not called once gaps is this long
MaxAllocOps == 7    \* steps of the allocator specification
MaxIndex == 2       \* largest cell index used by the emitter specification
MaxEmitOps == 3     \* steps of the emitter specification
MaxStmts == 3       \* statements of main in the compilation specification
MaxCallOps == 4     \* steps of the function-call specification
MaxIntrinsicOps == 3 \* steps of the intrinsics specification
MaxDepth == 2       \* nesting of list types in the type-equality specification
MaxSize == 2        \* largest size of a list type
MaxByte == 2        \* the bytes tried are 0 .. MaxByte and the ones in BigBytes
TapeCells == 6      \* cells of the (unbounded) tape that are modelled

----------------------------------------------------------------------------
(* Values *)

None == [type |-> "void"]

Byte(pointer) == [type |-> "byte", pointer |-> pointer]

VirtualInteger(v) == [type |-> "virtual integer", value |-> v]

Rep(ch, n) == [i \in 1..n |-> ch]

----------------------------------------------------------------------------
(* The compiler object *)

Self ==
    [program |-> program, current_index |-> current_index,
     non_allocated |-> non_allocated, gaps |-> gaps, variables |-> variables,
     fault |-> fault, saves |-> saves, result |-> result, value |-> value,
     live |-> live, double_free |-> double_free, ngoto |-> ngoto, marks |-> marks]

Becomes(c) ==
    /\ program' = c.program
    /\ current_index' = c.current_index
    /\ non_allocated' = c.non_allocated
    /\ gaps' = c.gaps
    /\ variables' = c.variables
    /\ fault' = c.fault
    /\ saves' = c.saves
    /\ result' = c.result
    /\ value' = c.value
    /\ live' = c.live
    /\ double_free' = c.double_free
    /\ ngoto' = c.ngoto
    /\ marks' = c.marks

\* the call `kind` on `cell`, made when the next character to be emitted is
\* the one at Len(program) + 1
Mark(c, kind, cell) == [kind |-> kind, cell |-> cell, at |-> Len(c.program) + 1]

raise(c, exception) == IF c.fault # "none" THEN c ELSE [c EXCEPT !.fault = exception]

allocate(c) ==
    IF c.fault # "none" THEN c
    ELSE IF c.gaps # <<>>
    THEN [c EXCEPT !.result = c.gaps[1], !.live = @ \cup {c.gaps[1]},
                   !.marks = @ \cup {Mark(c, "allocate", c.gaps[1])}]
    ELSE [c EXCEPT !.result = c.non_allocated,
                   !.non_allocated = @ + 1,
                   !.live = @ \cup {c.non_allocated},
                   !.marks = @ \cup {Mark(c, "allocate", c.non_allocated)}]

execute(c, code) ==
    IF c.fault # "none" THEN c
    ELSE [c EXCEPT !.program = @ \o code]

\* a goto() that emits the moves and forgets to record the new head
goto_unrecorded(c, index) ==
    IF c.fault # "none" THEN c
    ELSE LET c1 == IF c.current_index < index
                   THEN execute(c, Rep(">", index - c.current_index))
                   ELSE execute(c, Rep("<", c.current_index - index))
         IN  [c1 EXCEPT !.ngoto = @ + 1]

goto(c, index) ==
    IF c.fault # "none" THEN c
    ELSE LET c1 == IF c.current_index < index
                   THEN execute(c, Rep(">", index - c.current_index))
                   ELSE execute(c, Rep("<", c.current_index - index))
         IN  [c1 EXCEPT !.current_index = index, !.ngoto = @ + 1]

free_cell(c, index) ==
    IF c.fault # "none" THEN c
    ELSE LET c1 == [c EXCEPT !.double_free = @ \/ index \notin c.live,
                             !.live = @ \ {index},
                             !.marks = @ \cup {Mark(c, "free_cell", index)}]
         IN  IF index + 1 = c.non_allocated
             THEN [c1 EXCEPT !.non_allocated = @ - 1]
             ELSE [c1 EXCEPT !.gaps = Append(@, index)]

loop_enter(c) ==
    IF c.fault # "none" THEN c
    ELSE execute([c EXCEPT !.saves = Append(@, c.current_index)], <<"[">>)

\* a loop() that closes the scope without comparing the heads
loop_exit_unchecked(c) ==
    IF c.fault # "none" THEN c
    ELSE execute([c EXCEPT !.saves = SubSeq(@, 1, Len(@) - 1)], <<"]">>)

\* a loop() that only notices a head that ended to the left of its start
loop_exit_leftward(c) ==
    IF c.fault # "none" THEN c
    ELSE LET save == c.saves[Len(c.saves)]
             c1 == execute([c EXCEPT !.saves = SubSeq(@, 1, Len(@) - 1)], <<"]">>)
         IN  IF save > c1.current_index
             THEN raise(c1, "unbalanced loop")
             ELSE c1

loop_exit(c) ==
    IF c.fault # "none" THEN c
    ELSE LET save == c.saves[Len(c.saves)]
             c1 == execute([c EXCEPT !.saves = SubSeq(@, 1, Len(@) - 1)], <<"]">>)
         IN  IF save # c1.current_index
             THEN raise(c1, "unbalanced loop")
             ELSE c1

RECURSIVE move_targets(_, _, _)
move_targets(c, targets, multiplier) ==
    IF targets = <<>> THEN c
    ELSE move_targets(execute(goto(c, Head(targets)), Rep("+", multiplier)),
                      Tail(targets), multiplier)

\* a move_cell() that adds the source once whatever the multiplier
move_cell_unscaled(c, source, targets, multiplier) ==
    LET c1 == loop_enter(goto(c, source))
        c2 == execute(c1, <<"-">>)
        c3 == move_targets(c2, targets, 1)
    IN  loop_exit(goto(c3, source))

move_cell(c, source, targets, multiplier) ==
    LET c1 == loop_enter(goto(c, source))
        c2 == execute(c1, <<"-">>)
        c3 == move_targets(c2, targets, multiplier)
    IN  loop_exit(goto(c3, source))

----------------------------------------------------------------------------
(* Byte *)

return(c, v) == IF c.fault # "none" THEN c ELSE [c EXCEPT !.value = v]

ByteType_new(c) ==
    LET c1 == allocate(c)
    IN  return(c1, Byte(c1.result))

\* the last line calls Byte(self.compiler, a1): two arguments for a
\* constructor of three, a TypeError
Byte_copy(c, self) ==
    LET c1 == allocate(c)
        a1 == c1.result
        c2 == allocate(c1)
        a2 == c2.result
        c3 == move_cell(c2, self.pointer, <<a1, a2>>, 1)
        c4 == move_cell(c3, a2, <<self.pointer>>, 1)
        c5 == free_cell(c4, a2)
    IN  raise(c5, "TypeError")

Byte_free(c, self) == free_cell(c, self.pointer)

VirtualInteger_copy(c, self) == return(c, VirtualInteger(self.value))

----------------------------------------------------------------------------
(* The built-in intrinsics *)

assign(c, x, y) ==
    LET c1 == execute(goto(c, x.pointer), <<"[", "-", "]">>)
    IN  return(move_cell(c1, y.pointer, <<x.pointer>>, 1), None)

assign_virtual(c, x, y) ==
    LET c1 == execute(goto(c, x.pointer), <<"[", "-", "]">>)
    IN  return(execute(c1, Rep("+", y.value)), None)

succ(c, x) == return(execute(goto(c, x.pointer), <<"+">>), x)

\* a -- that emits the increment of ++
pred_increments(c, x) == return(execute(goto(c, x.pointer), <<"+">>), x)

pred(c, x) == return(execute(goto(c, x.pointer), <<"-">>), x)

iadd(c, x, y) ==
    LET c1 == move_cell(c, y.pointer, <<x.pointer>>, 1)
    IN  return(Byte_free(c1, y), x)

iadd_virtual(c, x, y) ==
    return(execute(goto(c, x.pointer), Rep("+", y.value)), x)

\* the body names `self`, which is not defined in a module-level function
isub(c, x, y) == raise(c, "NameError")

isub_virtual(c, x, y) ==
    return(execute(goto(c, x.pointer), Rep("-", y.value)), x)

\* the body of the loop on y: add a copy of x' to x
imul_loop(c, x, x_prime_prime, y) ==
    loop_exit(goto(Byte_free(move_cell(c, x_prime_prime.pointer, <<x.pointer>>, 1),
                             x_prime_prime),
                   y.pointer))

\* clear x, then loop on y; the copy of x' inside the loop raises
imul_body(c, x, x_prime, y) ==
    LET c5 == Byte_copy(execute(loop_enter(goto(execute(goto(c, x.pointer),
                                                        <<"[", "-", "]">>),
                                                y.pointer)),
                                <<"-">>),
                        x_prime)
    IN  IF c5.fault # "none" THEN c5 ELSE imul_loop(c5, x, c5.value, y)

imul(c, x, y) ==
    LET c1 == Byte_copy(c, x)
    IN  IF c1.fault # "none" THEN c1
        ELSE return(Byte_free(imul_body(c1, x, c1.value, y), y), x)

\* a *= that moves x to the temporary and back without the multiplier
imul_virtual_unscaled(c, x, y) ==
    LET c1 == ByteType_new(c)
        x_prime == c1.value
        c2 == move_cell(c1, x.pointer, <<x_prime.pointer>>, 1)
    IN  return(move_cell(c2, x_prime.pointer, <<x.pointer>>, 1), x)

imul_virtual(c, x, y) ==
    LET c1 == ByteType_new(c)
        x_prime == c1.value
        c2 == move_cell(c1, x.pointer, <<x_prime.pointer>>, y.value)
    IN  return(move_cell(c2, x_prime.pointer, <<x.pointer>>, 1), x)

nnot(c, x) ==
    LET c1 == ByteType_new(c)
        y == c1.value
        c2 == execute(goto(c1, y.pointer), <<"[", "-", "]", "+">>)
        c3 == loop_enter(goto(c2, x.pointer))
        c4 == execute(c3, <<"[", "-", "]">>)
        c5 == execute(goto(c4, y.pointer), <<"-">>)
    IN  return(loop_exit(goto(c5, x.pointer)), y)

\* an == that clears z and does not set it to 1
eq_unset(c, x, y) ==
    LET c1 == loop_enter(goto(c, y.pointer))
        c2 == execute(c1, <<"-">>)
        c3 == execute(goto(c2, x.pointer), <<"-">>)
        c4 == loop_exit(goto(c3, y.pointer))
        c5 == ByteType_new(c4)
        z == c5.value
        c6 == execute(goto(c5, z.pointer), <<"[", "-", "]">>)
        c7 == loop_enter(goto(c6, x.pointer))
        c8 == execute(c7, <<"[", "-", "]">>)
        c9 == execute(goto(c8, z.pointer), <<"-">>)
        c10 == loop_exit(goto(c9, x.pointer))
    IN  return(Byte_free(Byte_free(c10, x), y), z)

eq(c, x, y) ==
    LET c1 == loop_enter(goto(c, y.pointer))
        c2 == execute(c1, <<"-">>)
        c3 == execute(goto(c2, x.pointer), <<"-">>)
        c4 == loop_exit(goto(c3, y.pointer))
        c5 == ByteType_new(c4)
        z == c5.value
        c6 == execute(goto(c5, z.pointer), <<"[", "-", "]", "+">>)
        c7 == loop_enter(goto(c6, x.pointer))
        c8 == execute(c7, <<"[", "-", "]">>)
        c9 == execute(goto(c8, z.pointer), <<"-">>)
        c10 == loop_exit(goto(c9, x.pointer))
    IN  return(Byte_free(Byte_free(c10, x), y), z)

read(c) ==
    LET c1 == allocate(c)
        x == c1.result
    IN  return(execute(goto(c1, x), <<",">>), Byte(x))

write(c, x) == return(execute(goto(c, x.pointer), <<".">>), None)

\* compiler.functions: the keys registered by @compiler.function
functions ==
    {<<"=", <<"byte", "byte">>>>, <<"=", <<"byte", "virtual integer">>>>,
     <<"++", <<"byte">>>>, <<"--", <<"byte">>>>,
     <<"+=", <<"byte", "byte">>>>, <<"+=", <<"byte", "virtual integer">>>>,
     <<"-=", <<"byte", "byte">>>>, <<"-=", <<"byte", "virtual integer">>>>,
     <<"*=", <<"byte", "byte">>>>, <<"*=", <<"byte", "virtual integer">>>>,
     <<"!", <<"byte">>>>, <<"==", <<"byte", "byte">>>>,
     <<"read", <<>>>>, <<"write", <<"byte">>>>}

BuiltinFunction_call(c, name, args) ==
    LET n == Len(args)
        byte2 == n = 2 /\ args[2].type = "byte"
    IN  CASE name = "=" -> IF byte2 THEN assign(c, args[1], args[2])
                           ELSE assign_virtual(c, args[1], args[2])
          [] name = "++" -> succ(c, args[1])
          [] name = "--" -> pred(c, args[1])
          [] name = "+=" -> IF byte2 THEN iadd(c, args[1], args[2])
                            ELSE iadd_virtual(c, args[1], args[2])
          [] name = "-=" -> IF byte2 THEN isub(c, args[1], args[2])
                            ELSE isub_virtual(c, args[1], args[2])
          [] name = "*=" -> IF byte2 THEN imul(c, args[1], args[2])
                            ELSE imul_virtual(c, args[1], args[2])
          [] name = "!" -> nnot(c, args[1])
          [] name = "==" -> eq(c, args[1], args[2])
          [] name = "read" -> read(c)
          [] name = "write" -> write(c, args[1])

----------------------------------------------------------------------------
(* The AST evaluator *)

Get(name) == [node |-> "Get", name |-> name]

Literal(v) == [node |-> "Literal", value |-> v]

Copy(expr) == [node |-> "Copy", expr |-> expr]

FunctionCall(name, parameters) ==
    [node |-> "FunctionCall", name |-> name, parameters |-> parameters]

Get_evaluate(c, name) ==
    IF name \in DOMAIN c.variables
    THEN return(c, c.variables[name])
    ELSE raise(c, "KeyError")

copy(c, self) ==
    CASE self.type = "byte" -> Byte_copy(c, self)
      [] self.type = "virtual integer" -> VirtualInteger_copy(c, self)
      [] OTHER -> raise(c, "AttributeError")

\* the key (name, types of the evaluated parameters) is looked up in
\* compiler.functions; None has no attribute `type`
lookup_call(c, name, args) ==
    LET types == [i \in DOMAIN args |-> args[i].type]
    IN  IF \E i \in DOMAIN args : args[i].type = "void"
        THEN raise(c, "AttributeError")
        ELSE IF <<name, types>> \notin functions
        THEN raise(c, "KeyError")
        ELSE BuiltinFunction_call(c, name, args)

\* the list of evaluated parameters grows by the value just returned
evaluated(args, c) == [c |-> c, args |-> Append(args, c.value)]

\* Copy.evaluate: self.expr.evaluate(compiler).copy()
copy_returned(c) == IF c.fault # "none" THEN c ELSE copy(c, c.value)

RECURSIVE evaluate(_, _)
RECURSIVE evaluate_parameters(_, _, _)

\* [param.evaluate(compiler) for param in self.parameters], then the call
evaluate_parameters(c, name, todo) ==
    IF c.c.fault # "none" THEN c.c
    ELSE IF todo = <<>> THEN lookup_call(c.c, name, c.args)
    ELSE evaluate_parameters(evaluated(c.args, evaluate(c.c, Head(todo))),
                             name, Tail(todo))

evaluate(c, e) ==
    IF c.fault # "none" THEN c
    ELSE CASE e.node = "Get" -> Get_evaluate(c, e.name)
           [] e.node = "Literal" -> return(c, VirtualInteger(e.value))
           [] e.node = "Copy" -> copy_returned(evaluate(c, e.expr))
           [] e.node = "FunctionCall" ->
                evaluate_parameters([c |-> c, args |-> <<>>], e.name, e.parameters)

\* compiler.variables[self.name] = the value just returned
bind(c, name) ==
    IF c.fault # "none" THEN c
    ELSE [c EXCEPT !.variables =
             [n \in DOMAIN c.variables \cup {name} |->
                 IF n = name THEN c.value ELSE c.variables[n]]]

Declaration_evaluate(c, name) == bind(ByteType_new(c), name)

\* compiler.goto(cond.pointer): only a Byte has a pointer
goto_pointer(c, cond) ==
    IF cond.type = "byte" THEN goto(c, cond.pointer)
    ELSE raise(c, "AttributeError")

\* If.evaluate and While.evaluate up to the body
loop_on_returned(c) ==
    IF c.fault # "none" THEN c ELSE loop_enter(goto_pointer(c, c.value))

If_enter(c, condition) == loop_on_returned(evaluate(c, condition))

\* an If that closes its loop without clearing the condition
If_exit_uncleared(c, cond) == loop_exit(goto_pointer(c, cond))

\* If.evaluate after the body
If_exit(c, cond) ==
    loop_exit(execute(goto_pointer(c, cond), <<"[", "-", "]">>))

\* While.evaluate after the body
end_loop_on_returned(c) ==
    IF c.fault # "none" THEN c ELSE loop_exit(goto_pointer(c, c.value))

While_exit(c, condition) == end_loop_on_returned(evaluate(c, condition))

----------------------------------------------------------------------------
(* Text of the emitted program *)

RECURSIVE Count(_, _)
Count(s, ch) ==
    IF s = <<>> THEN 0
    ELSE (IF Head(s) = ch THEN 1 ELSE 0) + Count(Tail(s), ch)

HeadAfter(s) == Count(s, ">") - Count(s, "<")

----------------------------------------------------------------------------
(* Initial state shared by the specifications *)

\* Compiler.__init__, and the empty environment of the call of main
InitCompiler ==
    /\ program = <<>> /\ current_index = 0 /\ non_allocated = 0
    /\ gaps = <<>> /\ variables = <<>> /\ fault = "none" /\ saves = <<>>
    /\ result = 0 /\ value = None /\ live = {} /\ double_free = FALSE
    /\ ngoto = 0 /\ marks = {}

InitDriver ==
    /\ op = "init" /\ nops = 0 /\ frames = <<>> /\ done = FALSE
    /\ script = <<>>
    /\ test = [name |-> "main", A |-> 0, B |-> 0]

InitMachine ==
    /\ input = <<>> /\ output = <<>> /\ tape = <<>> /\ dp = 0 /\ ip = 1
    /\ phase = "compile"

Did(name) ==
    /\ op' = name
    /\ nops' = nops + 1

----------------------------------------------------------------------------
(* Allocator: any sequence of allocate() and free_cell(i) on a live i *)

Allocate ==
    /\ fault = "none" /\ ~done
    /\ non_allocated <= MaxCells
    /\ Becomes(allocate(Self))
    /\ Did("allocate")

FreeCell ==
    /\ fault = "none" /\ ~done
    /\ Len(gaps) < MaxGaps
    /\ \E index \in live : Becomes(free_cell(Self, index))
    /\ Did("free_cell")

AllocInit == InitCompiler /\ InitDriver /\ InitMachine

AllocNext ==
    /\ nops < MaxAllocOps
    /\ \/ Allocate
       \/ FreeCell
    /\ UNCHANGED <<frames, done, script, test, rvars>>

SpecAlloc == AllocInit /\ [][AllocNext]_vars

(* C2: allocate() never returns an index that is live when it is called,   *)
(* and two consecutive allocate() calls made while gaps is non-empty       *)
(* return two different indices.                                           *)
C2_AllocateNeverReturnsLive ==
    [][/\ op' = "allocate" => result' \notin live
       /\ (op = "allocate" /\ op' = "allocate" /\ gaps # <<>>) => result' # result]_vars

Range(s) == {s[i] : i \in DOMAIN s}

(* C5: the live indices are exactly {0 .. non_allocated-1} minus the       *)
(* indices held in gaps; every index in gaps is below non_allocated, is    *)
(* not live and occurs in gaps once.                                       *)
C5_LiveIsBelowNonAllocatedMinusGaps ==
    /\ live = (0 .. non_allocated - 1) \ Range(gaps)
    /\ \A i \in DOMAIN gaps : gaps[i] < non_allocated /\ gaps[i] \notin live
    /\ \A i, j \in DOMAIN gaps : gaps[i] = gaps[j] => i = j

----------------------------------------------------------------------------
(* Emitter: any sequence of calls of the compiler's methods *)

Cells == 0 .. MaxIndex

\* the strings the source passes to execute()
Codes ==
    {<<"[", "-", "]">>, <<"[", "-", "]", "+">>, <<"+">>, <<"-">>,
     <<",">>, <<".">>}

\* one destination with a multiplier of 2 as in `x *= 2`, or two with the
\* default multiplier as in Byte.copy; the source is not a destination
Moves(source) ==
    {[targets |-> <<t>>, multiplier |-> 2] : t \in Cells \ {source}}
        \cup {[targets |-> <<(source + 1) % (MaxIndex + 1),
                              (source + 2) % (MaxIndex + 1)>>,
                multiplier |-> 1]}

Execute ==
    /\ fault = "none" /\ ~done
    /\ \E code \in Codes : Becomes(execute(Self, code))
    /\ Did("execute")

Goto ==
    /\ fault = "none" /\ ~done
    /\ \E index \in Cells : Becomes(goto(Self, index))
    /\ Did("goto")

MoveCell ==
    /\ fault = "none" /\ ~done
    /\ \E source \in Cells : \E m \in Moves(source) :
          Becomes(move_cell(Self, source, m.targets, m.multiplier))
    /\ Did("move_cell")

LoopEnter ==
    /\ fault = "none" /\ ~done
    /\ Becomes(loop_enter(Self))
    /\ Did("loop_enter")

LoopExit ==
    /\ fault = "none" /\ ~done
    /\ saves # <<>>
    /\ Becomes(loop_exit(Self))
    /\ Did("loop_exit")

\* compile() returns self.program once main has been evaluated
Return ==
    /\ fault = "none" /\ ~done
    /\ saves = <<>> /\ frames = <<>> /\ script = <<>>
    /\ phase = "compile"
    /\ done' = TRUE
    /\ op' = "return"
    /\ UNCHANGED <<cvars, nops, frames, script, test, rvars>>

EmitInit == InitCompiler /\ InitDriver /\ InitMachine

EmitNext ==
    \/ /\ nops < MaxEmitOps
       /\ \/ Execute
          \/ Goto
          \/ MoveCell
          \/ LoopEnter
          \/ LoopExit
          \/ Allocate
          \/ FreeCell
       /\ UNCHANGED <<frames, done, script, test, rvars>>
    \/ Return

SpecEmit == EmitInit /\ [][EmitNext]_vars

(* C1: the predicted head equals the number of '>' minus the number of '<' *)
(* emitted so far, and current_index changes only in a step that calls     *)
(* goto: execute, loop entry and exit, allocate and free_cell leave it     *)
(* unchanged.                                                              *)
C1_HeadIsMovesEmitted ==
    /\ [](current_index = HeadAfter(program))
    /\ [][/\ current_index' # current_index => ngoto' > ngoto
          /\ op' \in {"execute", "loop_enter", "loop_exit", "allocate", "free_cell"}
                => current_index' = current_index]_vars

C1_Witness ==
    /\ op = "move_cell"
    /\ current_index > 0
    /\ Count(program, "<") > 0

(* C7: a loop() scope emits '[' on entry and ']' on exit, raises the       *)
(* 'unbalanced loop' fault exactly when the predicted head at exit differs *)
(* from the one at entry, and a compilation that raised returns no program *)
C7_LoopRaisesIffUnbalanced ==
    /\ [][/\ op' = "loop_enter" =>
                /\ program' = Append(program, "[")
                /\ saves' = Append(saves, current_index)
          /\ op' = "loop_exit" =>
                /\ program' = Append(program, "]")
                /\ (fault' = "unbalanced loop") = (saves[Len(saves)] # current_index)
                /\ (fault' = "none") = (saves[Len(saves)] = current_index)]_vars
    /\ [](fault # "none" => ~done)
    /\ [][fault # "none" => UNCHANGED program]_vars

C7_Witness ==
    /\ op = "loop_exit"
    /\ fault = "unbalanced loop"
    /\ current_index # 0
    /\ program[Len(program)] = "]"

----------------------------------------------------------------------------
(* Compilation of main: Code.execute evaluates the statements in order.    *)
(* An If or a While is entered by one step and left by another; the        *)
(* statements compiled in between are its body.                            *)

DoDeclaration(name) ==
    /\ fault = "none" /\ ~done
    /\ Becomes(Declaration_evaluate(Self, name))
    /\ Did("Declaration")
    /\ UNCHANGED frames

DoExpression(e) ==
    /\ fault = "none" /\ ~done
    /\ Becomes(evaluate(Self, e))
    /\ Did("FunctionCall")
    /\ UNCHANGED frames

\* the body of an If or a While is entered with cond held by the frame
EnterBody(c, kind, condition) ==
    /\ Becomes(c)
    /\ frames' = IF c.fault # "none" THEN frames
                 ELSE Append(frames, [kind |-> kind, condition |-> condition,
                                      cond |-> c.value])

DoIf(condition) ==
    /\ fault = "none" /\ ~done
    /\ EnterBody(If_enter(Self, condition), "If", condition)
    /\ Did("If")

DoWhile(condition) ==
    /\ fault = "none" /\ ~done
    /\ EnterBody(If_enter(Self, condition), "While", condition)
    /\ Did("While")

DoEndIf ==
    /\ fault = "none" /\ ~done
    /\ frames # <<>>
    /\ frames[Len(frames)].kind = "If"
    /\ Becomes(If_exit(Self, frames[Len(frames)].cond))
    /\ frames' = SubSeq(frames, 1, Len(frames) - 1)
    /\ Did("EndIf")

DoEndWhile ==
    /\ fault = "none" /\ ~done
    /\ frames # <<>>
    /\ frames[Len(frames)].kind = "While"
    /\ Becomes(While_exit(Self, frames[Len(frames)].condition))
    /\ frames' = SubSeq(frames, 1, Len(frames) - 1)
    /\ Did("EndWhile")

Names == {"a", "b"}

Operands ==
    {Get(n) : n \in Names} \cup {FunctionCall("read", <<>>), Copy(Get("a"))}

Expressions ==
    {FunctionCall(f, <<x>>) : f \in {"++", "--", "!", "write"}, x \in Operands}
      \cup {FunctionCall(f, <<x, y>>) :
               f \in {"=", "+=", "-=", "*=", "=="},
               x \in {Get(n) : n \in Names},
               y \in Operands \cup {Literal(2)}}

Conditions ==
    {Get(n) : n \in Names}
      \cup {FunctionCall("!", <<Get("a")>>), FunctionCall("read", <<>>)}

Declare == \E name \in Names : DoDeclaration(name)

Statement == \E e \in Expressions : DoExpression(e)

IfBegin == \E condition \in Conditions : DoIf(condition)

WhileBegin == \E condition \in Conditions : DoWhile(condition)

Init == InitCompiler /\ InitDriver /\ InitMachine

Next ==
    \/ /\ nops < MaxStmts
       /\ \/ Declare
          \/ Statement
          \/ IfBegin
          \/ WhileBegin
       /\ UNCHANGED <<done, script, test, rvars>>
    \/ /\ \/ DoEndIf
          \/ DoEndWhile
       /\ UNCHANGED <<done, script, test, rvars>>
    \/ Return

Spec == Init /\ [][Next]_vars

RECURSIVE ScanLoops(_, _, _, _)
\* one pass over the text s from position i: opens holds the head at every
\* '[' still open, h is the head after the first i-1 characters
ScanLoops(s, i, opens, h) ==
    IF i > Len(s) THEN opens = <<>>
    ELSE CASE s[i] = "[" -> ScanLoops(s, i + 1, Append(opens, h), h)
           [] s[i] = "]" ->
                /\ opens # <<>>
                /\ opens[Len(opens)] = h
                /\ ScanLoops(s, i + 1, SubSeq(opens, 1, Len(opens) - 1), h)
           [] s[i] = ">" -> ScanLoops(s, i + 1, opens, h + 1)
           [] s[i] = "<" -> ScanLoops(s, i + 1, opens, h - 1)
           [] OTHER -> ScanLoops(s, i + 1, opens, h)

LoopsBalanced(s) == ScanLoops(s, 1, <<>>, 0)

RECURSIVE Nesting(_, _, _)
\* the deepest nesting of '[' in s, scanning from i at depth d
Nesting(s, i, d) ==
    IF i > Len(s) THEN 0
    ELSE LET d1 == CASE s[i] = "[" -> d + 1 [] s[i] = "]" -> d - 1 [] OTHER -> d
             rest == Nesting(s, i + 1, d1)
         IN  IF d1 > rest THEN d1 ELSE rest

(* C3: in the program returned by a compilation that completes without a   *)
(* fault every '[' has a matching ']' and vice versa, and at every matched *)
(* pair the head at the ']' equals the head at its '['.                    *)
C3_ReturnedProgramIsBalanced ==
    done => LoopsBalanced(program)

C3_Witness ==
    /\ done
    /\ Nesting(program, 1, 0) >= 3
    /\ Count(program, ">") > 0
    /\ \E n \in DOMAIN variables : variables[n].pointer = 0

(* C4: the cells owned by distinct live Values are pairwise disjoint:      *)
(* two variables never own the same cell, and the condition Value held by  *)
(* an open If or While that is not a variable owns no variable's cell.     *)
C4_LiveValuesOwnDisjointCells ==
    /\ \A n1, n2 \in DOMAIN variables :
          n1 # n2 => variables[n1].pointer # variables[n2].pointer
    /\ \A i \in DOMAIN frames : \A n \in DOMAIN variables :
          (frames[i].condition.node # "Get" /\ frames[i].cond.type = "byte")
              => frames[i].cond.pointer # variables[n].pointer

(* C6: no cell is freed twice: free_cell is never called on an index that  *)
(* is not live at that moment.                                             *)
C6_NoCellFreedTwice == ~double_free

(* C16: closing a While never raises the unbalanced-loop fault, whatever   *)
(* byte-valued condition it re-evaluates: the head at the close of the     *)
(* loop is the head at its opening.                                        *)
C16_WhileNeverUnbalanced ==
    [][op' = "EndWhile"
         => /\ fault' # "unbalanced loop"
            /\ fault' = "none" => current_index' = frames[Len(frames)].cond.pointer]_vars

----------------------------------------------------------------------------
(* Calls of user-defined functions: Function.call.  The statements         *)
(* compiled between the step that enters a call and the step that leaves   *)
(* it are the code of the callee.                                          *)

NoExpression == [node |-> "None"]

\* compiler.functions beside the intrinsics: byte f(byte p) { ... return p; }
\* and void g() { ... }
UserFunctions ==
    [f |-> [param_names |-> <<"p">>, types |-> <<"byte">>, return_expr |-> Get("p")],
     g |-> [param_names |-> <<>>, types |-> <<>>, return_expr |-> NoExpression]]

\* dict(zip(param_names, args)): a later pair replaces an earlier one
zip(param_names, args) ==
    LET n == IF Len(param_names) < Len(args) THEN Len(param_names) ELSE Len(args)
    IN  [name \in {param_names[i] : i \in 1 .. n} |->
            args[CHOOSE i \in 1 .. n :
                    /\ param_names[i] = name
                    /\ \A j \in 1 .. n : param_names[j] = name => j <= i]]

\* Function.call up to the code of the callee
Function_call(c, function, args) ==
    IF c.fault # "none" THEN c
    ELSE [c EXCEPT !.variables = zip(function.param_names, args)]

\* Function.call after the code of the callee
Function_return(c, return_expr) ==
    IF return_expr.node = "None" THEN return(c, None)
    ELSE evaluate(c, return_expr)

\* compiler.functions[(name, types)].call(compiler, parameters)
lookup_user_call(c, name) ==
    IF c.c.fault # "none" THEN c.c
    ELSE IF \E i \in DOMAIN c.args : c.args[i].type = "void"
    THEN raise(c.c, "AttributeError")
    ELSE IF \/ name \notin DOMAIN UserFunctions
            \/ UserFunctions[name].types # [i \in DOMAIN c.args |-> c.args[i].type]
    THEN raise(c.c, "KeyError")
    ELSE Function_call(c.c, UserFunctions[name], c.args)

RECURSIVE evaluate_list(_, _)
\* [param.evaluate(compiler) for param in self.parameters]
evaluate_list(c, todo) ==
    IF c.c.fault # "none" \/ todo = <<>> THEN c
    ELSE evaluate_list(evaluated(c.args, evaluate(c.c, Head(todo))), Tail(todo))

\* the callee runs in the new environment; the frame remembers the caller's
EnterCall(c, name) ==
    /\ Becomes(c)
    /\ frames' = IF c.fault # "none" THEN frames
                 ELSE Append(frames, [kind |-> "Call", function |-> name,
                                      caller |-> variables])

DoCall(name, parameters) ==
    /\ fault = "none" /\ ~done
    /\ EnterCall(lookup_user_call(evaluate_list([c |-> Self, args |-> <<>>], parameters),
                                  name),
                 name)
    /\ Did("call")

DoReturn ==
    /\ fault = "none" /\ ~done
    /\ frames # <<>>
    /\ frames[Len(frames)].kind = "Call"
    /\ Becomes(Function_return(Self, UserFunctions[frames[Len(frames)].function].return_expr))
    /\ frames' = SubSeq(frames, 1, Len(frames) - 1)
    /\ Did("called")

\* f(a); f(b); g();
Calls == {FunctionCall("f", <<Get(n)>>) : n \in Names} \cup {FunctionCall("g", <<>>)}

CallBegin == \E e \in Calls : DoCall(e.name, e.parameters)

\* ++a; ++p; write(a); write(p);
CallStatements ==
    {FunctionCall(f, <<Get(n)>>) : f \in {"++", "write"}, n \in {"a", "p"}}

CallStatement == \E e \in CallStatements : DoExpression(e)

CallNext ==
    \/ /\ nops < MaxCallOps
       /\ \/ Declare
          \/ CallStatement
          \/ CallBegin
       /\ UNCHANGED <<done, script, test, rvars>>
    \/ /\ DoReturn
       /\ UNCHANGED <<done, script, test, rvars>>
    \/ Return

SpecCall == Init /\ [][CallNext]_vars

(* C12: a call of a user-defined function runs with an environment that    *)
(* holds exactly its parameters, and when the call returns the caller's    *)
(* environment is what it was before the call.                             *)
C12_CallRestoresCallerEnvironment ==
    /\ [][(op' = "call" /\ fault' = "none")
            => DOMAIN variables' =
                  Range(UserFunctions[frames'[Len(frames')].function].param_names)]_vars
    /\ [][(op' = "called" /\ fault' = "none")
            => variables' = frames[Len(frames)].caller]_vars

----------------------------------------------------------------------------
(* Intrinsics: any sequence of byte.new(), Byte.copy() and calls of the     *)
(* built-in intrinsics on Bytes that own live cells and on literals.  Here  *)
(* op is the call made by the step: its name and its arguments.            *)

Call(name, args) == [name |-> name, args |-> args]

Values(type) ==
    IF type = "byte" THEN {Byte(i) : i \in live}
    ELSE {VirtualInteger(v) : v \in 0 .. MaxByte}

Arguments(types) ==
    CASE Len(types) = 0 -> {<<>>}
      [] Len(types) = 1 -> {<<x>> : x \in Values(types[1])}
      [] Len(types) = 2 -> {<<x, y>> : x \in Values(types[1]), y \in Values(types[2])}

New ==
    /\ Becomes(ByteType_new(Self))
    /\ Did(Call("byte.new", <<>>))

ByteCopy ==
    \E x \in Values("byte") :
        /\ Becomes(Byte_copy(Self, x))
        /\ Did(Call("copy", <<x>>))

Intrinsic ==
    \E key \in functions : \E args \in Arguments(key[2]) :
        /\ Becomes(BuiltinFunction_call(Self, key[1], args))
        /\ Did(Call(key[1], args))

IntrinsicNext ==
    /\ fault = "none"
    /\ nops < MaxIntrinsicOps
    /\ non_allocated <= MaxCells
    /\ \/ New
       \/ ByteCopy
       \/ Intrinsic
    /\ UNCHANGED <<frames, done, script, test, rvars>>

SpecIntrinsic == Init /\ [][IntrinsicNext]_vars

Intrinsics == {key[1] : key \in functions}

(* C13: when a built-in intrinsic returns, every cell that became live     *)
(* during its call is the cell of the Byte it returns: the temporaries     *)
(* have been freed.                                                        *)
C13_IntrinsicTemporariesAreFreed ==
    [][(op'.name \in Intrinsics /\ fault' = "none")
         => (live' \ live) \subseteq
               (IF value'.type = "byte" THEN {value'.pointer} ELSE {})]_vars

(* C15: Byte.copy completes without a fault and returns a Byte of type     *)
(* byte that owns a cell which was not live before; the only cell that     *)
(* became live is that one (the second temporary has been freed).          *)
C15_CopyReturnsFreshByte ==
    [][op'.name = "copy"
         => /\ fault' = "none"
            /\ value'.type = "byte"
            /\ value'.pointer \notin live
            /\ live' = live \cup {value'.pointer}]_vars

(* C18: `-=` on two bytes in distinct cells completes without a fault,     *)
(* emits the loop at y that decrements y and x and returns to y, frees y   *)
(* and returns x.                                                          *)
C18_SubtractBytesCompiles ==
    [][(/\ op'.name = "-="
        /\ op'.args[2].type = "byte"
        /\ op'.args[1].pointer # op'.args[2].pointer)
         => /\ fault' = "none"
            /\ value' = op'.args[1]
            /\ op'.args[2].pointer \notin live'
            /\ op'.args[1].pointer \in live'
            /\ current_index' = op'.args[2].pointer
            /\ Count(program', "[") = Count(program, "[") + 1
            /\ Count(program', "-") = Count(program, "-") + 2]_vars

(* C19: after `=` on two bytes in distinct cells has returned, the cell    *)
(* of src is no longer live and the cell of dst is live.                   *)
C19_AssignFreesSource ==
    [][(/\ op'.name = "="
        /\ op'.args[2].type = "byte"
        /\ op'.args[1].pointer # op'.args[2].pointer
        /\ fault' = "none")
         => /\ op'.args[2].pointer \notin live'
            /\ op'.args[1].pointer \in live']_vars

----------------------------------------------------------------------------
(* The target machine (section 6 of the specification): a tape of bytes    *)
(* initialised to zero, the head at 0, + and - wrap modulo 256.            *)

CellValues == 256

\* number of '[' minus number of ']' among the characters a .. b of s
Balance(s, a, b) ==
    Cardinality({k \in a .. b : s[k] = "["}) - Cardinality({k \in a .. b : s[k] = "]"})

\* the position of the ']' that matches the '[' at i
MatchClose(s, i) ==
    LET closes == {j \in i + 1 .. Len(s) : s[j] = "]" /\ Balance(s, i, j) = 0}
    IN  CHOOSE j \in closes : \A k \in closes : j <= k

\* the position of the '[' that matches the ']' at j
MatchOpen(s, j) ==
    LET opens == {i \in 1 .. j - 1 : s[i] = "[" /\ Balance(s, i, j) = 0}
    IN  CHOOSE i \in opens : \A k \in opens : k <= i

Running(ch) ==
    /\ phase = "run"
    /\ ip <= Len(program)
    /\ program[ip] = ch

Start ==
    /\ done /\ phase = "compile"
    /\ phase' = "run"
    /\ UNCHANGED <<cvars, dvars, input, output, tape, dp, ip>>

Plus ==
    /\ Running("+")
    /\ tape' = [tape EXCEPT ![dp] = (@ + 1) % CellValues]
    /\ ip' = ip + 1
    /\ UNCHANGED <<cvars, dvars, input, output, dp, phase>>

Minus ==
    /\ Running("-")
    /\ tape' = [tape EXCEPT ![dp] = (@ + CellValues - 1) % CellValues]
    /\ ip' = ip + 1
    /\ UNCHANGED <<cvars, dvars, input, output, dp, phase>>

\* a move off the modelled tape stops the machine
Right ==
    /\ Running(">")
    /\ IF dp + 1 < TapeCells
       THEN dp' = dp + 1 /\ ip' = ip + 1 /\ phase' = phase
       ELSE phase' = "crashed" /\ UNCHANGED <<dp, ip>>
    /\ UNCHANGED <<cvars, dvars, input, output, tape>>

Left ==
    /\ Running("<")
    /\ IF dp > 0
       THEN dp' = dp - 1 /\ ip' = ip + 1 /\ phase' = phase
       ELSE phase' = "crashed" /\ UNCHANGED <<dp, ip>>
    /\ UNCHANGED <<cvars, dvars, input, output, tape>>

Open ==
    /\ Running("[")
    /\ ip' = IF tape[dp] = 0 THEN MatchClose(program, ip) + 1 ELSE ip + 1
    /\ UNCHANGED <<cvars, dvars, input, output, tape, dp, phase>>

Close ==
    /\ Running("]")
    /\ ip' = IF tape[dp] # 0 THEN MatchOpen(program, ip) + 1 ELSE ip + 1
    /\ UNCHANGED <<cvars, dvars, input, output, tape, dp, phase>>

Dot ==
    /\ Running(".")
    /\ output' = Append(output, tape[dp])
    /\ ip' = ip + 1
    /\ UNCHANGED <<cvars, dvars, input, tape, dp, phase>>

\* what a read past the end of the input stores is left to the machine
Comma ==
    /\ Running(",")
    /\ IF input # <<>>
       THEN tape' = [tape EXCEPT ![dp] = Head(input)] /\ input' = Tail(input)
       ELSE \E v \in {0, CellValues - 1, tape[dp]} :
               tape' = [tape EXCEPT ![dp] = v] /\ input' = input
    /\ ip' = ip + 1
    /\ UNCHANGED <<cvars, dvars, output, dp, phase>>

Halt ==
    /\ phase = "run"
    /\ ip > Len(program)
    /\ phase' = "halted"
    /\ UNCHANGED <<cvars, dvars, input, output, tape, dp, ip>>

Machine ==
    \/ Start
    \/ Plus
    \/ Minus
    \/ Right
    \/ Left
    \/ Open
    \/ Close
    \/ Dot
    \/ Comma
    \/ Halt

----------------------------------------------------------------------------
(* Compiling and running the programs of section 8 *)

BigBytes == {16, 255}

Bytes == (0 .. MaxByte) \cup BigBytes

Declaration(name) == [node |-> "Declaration", name |-> name]

While(condition) == [node |-> "While", condition |-> condition]

EndWhile == [node |-> "EndWhile"]

If(condition) == [node |-> "If", condition |-> condition]

EndIf == [node |-> "EndIf"]

\* byte x; x += A; x *= B; write(x);
Multiply(A, B) ==
    <<Declaration("x"),
      FunctionCall("+=", <<Get("x"), Literal(A)>>),
      FunctionCall("*=", <<Get("x"), Literal(B)>>),
      FunctionCall("write", <<Get("x")>>)>>

\* byte a; byte b; a = read(); b = read(); write(==(a, b));
Equality ==
    <<Declaration("a"),
      Declaration("b"),
      FunctionCall("=", <<Get("a"), FunctionCall("read", <<>>)>>),
      FunctionCall("=", <<Get("b"), FunctionCall("read", <<>>)>>),
      FunctionCall("write", <<FunctionCall("==", <<Get("a"), Get("b")>>)>>)>>

\* byte n; n = read(); while (n) { write(n); --n; }
Countdown ==
    <<Declaration("n"),
      FunctionCall("=", <<Get("n"), FunctionCall("read", <<>>)>>),
      While(Get("n")),
      FunctionCall("write", <<Get("n")>>),
      FunctionCall("--", <<Get("n")>>),
      EndWhile>>

\* byte c; c = read(); if (c) { c += B; write(c); }
Conditional(B) ==
    <<Declaration("c"),
      FunctionCall("=", <<Get("c"), FunctionCall("read", <<>>)>>),
      If(Get("c")),
      FunctionCall("+=", <<Get("c"), Literal(B)>>),
      FunctionCall("write", <<Get("c")>>),
      EndIf>>

\* ==(read(), read()); byte a; ++a; byte b;
Recycle ==
    <<FunctionCall("==", <<FunctionCall("read", <<>>), FunctionCall("read", <<>>)>>),
      Declaration("a"),
      FunctionCall("++", <<Get("a")>>),
      Declaration("b")>>

Tests ==
    {[name |-> "multiply", A |-> A, B |-> B] : A, B \in Bytes}
      \cup {[name |-> "equality", A |-> A, B |-> B] : A, B \in Bytes}
      \cup {[name |-> "countdown", A |-> A, B |-> 0] : A \in Bytes}
      \cup {[name |-> "conditional", A |-> A, B |-> B] : A, B \in Bytes}
      \cup {[name |-> "recycle", A |-> A, B |-> B] : A, B \in Bytes}

Source(t) ==
    CASE t.name = "multiply" -> Multiply(t.A, t.B)
      [] t.name = "equality" -> Equality
      [] t.name = "countdown" -> Countdown
      [] t.name = "conditional" -> Conditional(t.B)
      [] t.name = "recycle" -> Recycle

Stdin(t) ==
    CASE t.name = "multiply" -> <<>>
      [] t.name = "equality" -> <<t.A, t.B>>
      [] t.name = "countdown" -> <<t.A>>
      [] t.name = "conditional" -> <<t.A>>
      [] t.name = "recycle" -> <<t.A, t.B>>

RunInit ==
    /\ InitCompiler
    /\ op = "init" /\ nops = 0 /\ frames = <<>> /\ done = FALSE
    /\ test \in Tests
    /\ script = Source(test)
    /\ input = Stdin(test)
    /\ output = <<>>
    /\ tape = [i \in 0 .. TapeCells - 1 |-> 0]
    /\ dp = 0 /\ ip = 1 /\ phase = "compile"

Compiling(node) ==
    /\ script # <<>>
    /\ Head(script).node = node
    /\ script' = Tail(script)
    /\ UNCHANGED <<done, test, rvars>>

CompileDeclaration == Compiling("Declaration") /\ DoDeclaration(Head(script).name)

CompileExpression == Compiling("FunctionCall") /\ DoExpression(Head(script))

CompileWhile == Compiling("While") /\ DoWhile(Head(script).condition)

CompileEndWhile == Compiling("EndWhile") /\ DoEndWhile

CompileIf == Compiling("If") /\ DoIf(Head(script).condition)

CompileEndIf == Compiling("EndIf") /\ DoEndIf

RunNext ==
    \/ CompileDeclaration
    \/ CompileExpression
    \/ CompileWhile
    \/ CompileEndWhile
    \/ CompileIf
    \/ CompileEndIf
    \/ Return
    \/ Machine

SpecRun == RunInit /\ [][RunNext]_vars

\* the machine never pauses: it runs the program until it halts
SpecRunFair == SpecRun /\ WF_vars(Machine)

Is(name) == test.name = name

(* C8: `byte x; x += A; x *= B; write(x);` compiles, and the emitted       *)
(* program terminates and outputs exactly one byte, (A*B) mod 256.         *)
C8_MultiplyOutputsProduct ==
    /\ [](Is("multiply") => Len(output) <= 1)
    /\ []((Is("multiply") /\ phase = "halted") => output = <<(test.A * test.B) % 256>>)
    /\ [](Is("multiply") => fault = "none" /\ phase # "crashed")
    /\ []((Is("multiply") /\ done) => <>(phase = "halted"))

C8_Witness ==
    /\ Is("multiply")
    /\ phase = "halted"
    /\ test.A = 255 /\ test.B = 255
    /\ output = <<1>>

(* C9: `byte a; byte b; a = read(); b = read(); write(==(a, b));` outputs  *)
(* exactly one byte, 1 if the two input bytes are equal and 0 otherwise;   *)
(* the cell of the result z, where write leaves the head, is neither the   *)
(* cell of a nor the cell of b.                                            *)
C9_EqualityOutputsOneIffEqual ==
    /\ [](Is("equality") => Len(output) <= 1)
    /\ []((Is("equality") /\ phase = "halted")
            => output = <<IF test.A = test.B THEN 1 ELSE 0>>)
    /\ [](Is("equality") => fault = "none" /\ phase # "crashed")
    /\ []((Is("equality") /\ done) => <>(phase = "halted"))
    /\ []((Is("equality") /\ done)
            => current_index \notin {variables["a"].pointer, variables["b"].pointer})

C9_Witness ==
    /\ Is("equality")
    /\ phase = "halted"
    /\ test.A = 255 /\ test.B = 255
    /\ output = <<1>>

Descending(n) == [i \in 1 .. n |-> n + 1 - i]

(* C10: `byte n; n = read(); while (n) { write(n); --n; }` on the input    *)
(* byte N terminates, runs the body (which writes once) exactly N times,   *)
(* outputs N, N-1, ..., 1 and leaves the cell of n at zero.                *)
C10_CountdownRunsBodyNTimes ==
    /\ [](Is("countdown") => Len(output) <= test.A)
    /\ []((Is("countdown") /\ phase = "halted")
            => /\ output = Descending(test.A)
               /\ tape[variables["n"].pointer] = 0)
    /\ [](Is("countdown") => fault = "none" /\ phase # "crashed")
    /\ []((Is("countdown") /\ done) => <>(phase = "halted"))

C10_Witness ==
    /\ Is("countdown")
    /\ phase = "halted"
    /\ test.A = 255
    /\ Len(output) = 255

(* C11: `byte c; c = read(); if (c) { c += B; write(c); }` on the input    *)
(* byte A runs the body (which writes once) exactly once when A is not     *)
(* zero and not at all when A is zero, whatever value A + B the body       *)
(* leaves in c, and the cell of c holds zero once the loop has exited.     *)
C11_IfRunsBodyOnceIffNonZero ==
    /\ [](Is("conditional") => Len(output) <= (IF test.A = 0 THEN 0 ELSE 1))
    /\ []((Is("conditional") /\ phase = "halted")
            => /\ output = IF test.A = 0 THEN <<>> ELSE <<(test.A + test.B) % 256>>
               /\ tape[variables["c"].pointer] = 0)
    /\ [](Is("conditional") => fault = "none" /\ phase # "crashed")
    /\ []((Is("conditional") /\ done) => <>(phase = "halted"))

C11_Witness ==
    /\ Is("conditional")
    /\ phase = "halted"
    /\ test.A = 255 /\ test.B = 2
    /\ output = <<1>>
    /\ tape[variables["c"].pointer] = 0

(* C20: whenever the machine is at a place of the emitted program where    *)
(* the compiler called free_cell(i), cell i holds 0, and whenever it is at *)
(* a place where allocate() handed out cell i, cell i holds 0.             *)
C20_FreedAndAllocatedCellsHoldZero ==
    phase = "run" => \A m \in marks : ip = m.at => tape[m.cell] = 0

----------------------------------------------------------------------------
(* Running the code of one move_cell(source, *targets, multiplier) on a    *)
(* tape that holds any byte in the source and in the other cells           *)

\* no destination, one, or two as in Byte.copy; the source is not one
Destinations(source) ==
    {<<>>} \cup {<<t>> : t \in Cells \ {source}}
           \cup ({<<t, u>> : t, u \in Cells \ {source}} \ {<<t, t>> : t \in Cells})

\* the source holds v, every other cell holds w
TapeWith(source, v, w) == [i \in 0 .. TapeCells - 1 |-> IF i = source THEN v ELSE w]

MoveTests ==
    {[name |-> "move", source |-> source, targets |-> targets, multiplier |-> m,
      tape |-> TapeWith(source, v, w)] :
        source \in Cells, targets \in UNION {Destinations(x) : x \in Cells},
        m \in 0 .. MaxByte, v \in (0 .. MaxByte) \cup {CellValues - 1},
        w \in {0, CellValues - 1}}

MoveInit ==
    /\ InitCompiler
    /\ op = "init" /\ nops = 0 /\ frames = <<>> /\ done = FALSE
    /\ test \in {t \in MoveTests : t.targets \in Destinations(t.source)}
    /\ script = <<[node |-> "move_cell"]>>
    /\ input = <<>> /\ output = <<>>
    /\ tape = test.tape
    /\ dp = 0 /\ ip = 1 /\ phase = "compile"

CompileMove ==
    /\ Compiling("move_cell")
    /\ fault = "none" /\ ~done
    /\ Becomes(move_cell(Self, test.source, test.targets, test.multiplier))
    /\ Did("move_cell")
    /\ UNCHANGED frames

\* the code of move_cell holds no ',' and no '.'
MoveMachine ==
    \/ Start
    \/ Plus
    \/ Minus
    \/ Right
    \/ Left
    \/ Open
    \/ Close
    \/ Halt

MoveNext ==
    \/ CompileMove
    \/ Return
    \/ MoveMachine

SpecMove == MoveInit /\ [][MoveNext]_vars

SpecMoveFair == SpecMove /\ WF_vars(MoveMachine)

\* the tape after the move: the source at zero, m times its value added to
\* every destination
Moved(t) ==
    [i \in 0 .. TapeCells - 1 |->
        IF i = t.source THEN 0
        ELSE IF i \in Range(t.targets)
        THEN (t.tape[i] + t.multiplier * t.tape[t.source]) % CellValues
        ELSE t.tape[i]]

----------------------------------------------------------------------------
(* Equality of type handles: the __eq__ methods of the four type classes,  *)
(* and Python's == on two objects.  An object is a record tagged with its  *)
(* class; a value object also carries its identity.                        *)

ByteType == [class |-> "ByteType"]

ListType(type, size) == [class |-> "ListType", type |-> type, size |-> size]

VirtualIntegerType == [class |-> "VirtualIntegerType"]

VirtualListType == [class |-> "VirtualListType"]

TypeClasses == {"ByteType", "ListType", "VirtualIntegerType", "VirtualListType"}

Object(class, id) == [class |-> class, id |-> id]

RECURSIVE TypeHandles(_)
\* the type handles nested at most d deep
TypeHandles(d) ==
    IF d = 0 THEN {ByteType, VirtualIntegerType, VirtualListType}
    ELSE TypeHandles(0)
            \cup {ListType(t, n) : t \in TypeHandles(d - 1), n \in 1 .. MaxSize}

ValueObjects ==
    {Object(class, id) : class \in {"Byte", "List", "VirtualInteger", "VirtualList"},
                         id \in 1 .. 2}

RECURSIVE equals(_, _)
RECURSIVE eq_method(_, _)

\* self.__eq__(other) of a type handle
eq_method(self, other) ==
    CASE self.class = "ByteType" -> other.class = "ByteType"
      [] self.class = "ListType" ->
            IF other.class # "ListType" THEN FALSE
            ELSE equals(self.type, other.type)
      [] self.class = "VirtualIntegerType" -> other.class = "VirtualInteger"
      [] self.class = "VirtualListType" -> other.class = "VirtualListType"

\* a == b: a.__eq__(b); a value object inherits object.__eq__, which is
\* NotImplemented unless b is a, and then the reflected b.__eq__(a) decides
equals(a, b) ==
    IF a.class \in TypeClasses THEN eq_method(a, b)
    ELSE IF a = b THEN TRUE
    ELSE IF b.class \in TypeClasses THEN eq_method(b, a)
    ELSE FALSE

Boolean(b) == [type |-> "bool", value |-> b]

TypesInit ==
    /\ InitCompiler
    /\ op = "init" /\ nops = 0 /\ frames = <<>> /\ done = FALSE /\ script = <<>>
    /\ InitMachine
    /\ test \in {[name |-> "types", self |-> a, other |-> b] :
                    a, b \in TypeHandles(MaxDepth) \cup ValueObjects}

Compare ==
    /\ op = "init"
    /\ value' = Boolean(equals(test.self, test.other))
    /\ Did("==")
    /\ UNCHANGED <<program, current_index, non_allocated, gaps, variables, fault,
                   saves, result, live, double_free, ngoto, marks>>
    /\ UNCHANGED <<frames, done, script, test, rvars>>

TypesNext == Compare

SpecTypes == TypesInit /\ [][TypesNext]_vars

RECURSIVE SameType(_, _)
\* both are type handles of the same variant with the same element types
SameType(a, b) ==
    /\ a.class \in TypeClasses
    /\ a.class = b.class
    /\ a.class = "ListType" => SameType(a.type, b.type)

(* C17: the equality test on two objects is true exactly when both are     *)
(* type handles of the same variant whose element types are recursively    *)
(* equal, list sizes ignored: two virtual-integer handles are equal and a  *)
(* type handle never equals a value object.                                *)
C17_TypeEqualityIsStructural ==
    op = "==" => value.value = SameType(test.self, test.other)

====
